---- MODULE Spec2Model ----
(***************************************************************************)
(* State-machine model of the rentNaija front end:                         *)
(*   - the AddProperty five-step wizard (AddProperty.tsx),                 *)
(*   - getUserSubscriptions (subscriptions.ts),                            *)
(*   - the Checkout component (unnamed/part_000).                          *)
(* React state is modelled by one variable per useState cell; the          *)
(* react-hook-form store by `values`, `files` and `amenitiesField`.        *)
(* Handlers close over the values of the render that created them: `view`  *)
(* is that render (the DOM the user clicks on).  Updates made from a React *)
(* click handler are committed before the next event; updates made from an *)
(* asynchronous continuation (after an await, in a FileReader callback)    *)
(* are committed by the separate Render step.                              *)
(***************************************************************************)
EXTENDS Integers, Sequences, FiniteSets, TLC

VARIABLES
    step,               \* useState<number>(1)
    isLoading,          \* useState<boolean>(false)
    view,               \* the committed render: [step, isLoading] the handlers close over
    values,             \* react-hook-form store, scalar fields
    amenitiesField,     \* react-hook-form store, field 'amenities'
    files,              \* react-hook-form store, fields image1..5, video1..5
    imagePreview,       \* useState<PreviewMap>({})
    videoPreview,       \* useState<PreviewMap>({})
    selectedAmenities,  \* useState<string[]>([])
    categories,         \* useState<Category[]>([])
    token,              \* localStorage 'token'
    requests,           \* HTTP requests in flight
    readers,            \* FileReaders whose onloadend has not fired yet
    blobCount,          \* number of URL.createObjectURL calls so far
    notice,             \* the alert raised by the last handler ("" when none)
    mounted,            \* the mount effect (useEffect with no dependencies) has run
    returned,           \* what the last direct call of a function returned ("none" before any)
    unmounted,          \* the AddProperty instance has been torn down
    plans,              \* Checkout: the `plans` prop
    selectedPlan,       \* Checkout: useState<PlansInterface|undefined>()
    selectedGateway,    \* Checkout: useState<GatewayI>()
    gatewayResponse,    \* Checkout: useState()
    alerted,            \* Checkout: the alert() raised by the last handler ("" when none)
    isLoggedIn,         \* Checkout: state.agent.isLoggedIn of the redux store
    route               \* Checkout: the page the router shows

wizardVars == <<step, isLoading, view, values, amenitiesField, files, imagePreview,
                videoPreview, selectedAmenities, categories, token, requests,
                readers, blobCount, notice, mounted, returned, unmounted>>

checkoutVars == <<plans, selectedPlan, selectedGateway, gatewayResponse, alerted,
                  isLoggedIn, route>>

vars == <<wizardVars, checkoutVars>>

----------------------------------------------------------------------------
(* JavaScript values held by the form store *)

Undefined == [t |-> "undefined", s |-> "", size |-> 0]
Null      == [t |-> "null", s |-> "", size |-> 0]
Str(x)    == [t |-> "string", s |-> x, size |-> 0]
Num(x)    == [t |-> "number", s |-> x, size |-> 0]
FileOf(name, sz) == [t |-> "file", s |-> name, size |-> sz]

IsFile(v) == v.t = "file"

\* JavaScript truthiness of a form value
Truthy(v) ==
    CASE v.t = "undefined" -> FALSE
      [] v.t = "null"      -> FALSE
      [] v.t = "string"    -> v.s # ""
      [] v.t = "number"    -> v.s # "0"
      [] OTHER             -> TRUE

\* react-hook-form `required` rule: the value counts as missing
IsEmpty(v) == v.t \in {"undefined", "null"} \/ (v.t = "string" /\ v.s = "")

\* value.toString() as used when the payload is built
ToStr(v) == v.s

----------------------------------------------------------------------------
(* Program constants *)

AVAILABLE_AMENITIES ==
    <<"WiFi", "Parking", "Air Conditioning", "Swimming Pool", "Gym", "Security",
      "Furnished", "Balcony", "Garden", "Pet Friendly", "Elevator", "CCTV",
      "Generator", "Water Supply", "Kitchen">>

imageFields == <<"image1", "image2", "image3", "image4", "image5">>
videoFields == <<"video1", "video2", "video3", "video4", "video5">>

MAX_IMAGE_SIZE == 3 * 1024 * 1024
MAX_VIDEO_SIZE == 10 * 1024 * 1024

Range(seq) == {seq[i] : i \in 1..Len(seq)}

FileFields == Range(imageFields) \cup Range(videoFields)

\* the scalar keys of PropertyFormData
ScalarFields ==
    {"category_id", "title", "description", "number_of_rooms", "amount",
     "currency_code", "security_deposit", "security_deposit_currency_code",
     "duration", "duration_type", "country_code", "state_code", "city_code"}

\* useForm({defaultValues: {amenities: [], currency_code: 'NGN', country_code: 'NG'}})
DefaultValues ==
    [f \in ScalarFields |->
        CASE f = "currency_code" -> Str("NGN")
          [] f = "country_code"  -> Str("NG")
          [] OTHER               -> Undefined]

DefaultFiles == [f \in FileFields |-> Undefined]

\* the fields registered with {required: ...}
RequiredFields ==
    {"category_id", "title", "amount", "currency_code", "duration",
     "duration_type", "country_code", "state_code", "city_code"}

\* the inputs rendered (and so mounted in the form) at each step
RenderedFields(s) ==
    CASE s = 1 -> {"category_id", "title", "number_of_rooms", "description"}
      [] s = 2 -> {"amount", "currency_code", "security_deposit"}
      [] s = 3 -> {"duration", "duration_type"}
      [] s = 4 -> {"country_code", "state_code", "city_code"}
      [] OTHER -> {}

----------------------------------------------------------------------------
(* Bounds of the model: what the user and the network are allowed to do *)

MaxPosts == 2           \* POST /apartment requests in flight at once
MaxReaders == 1         \* FileReaders pending at once
MaxBlobs == 2           \* createObjectURL calls in one behaviour

\* the files the user picks: one at the size limit, one a byte over it
ImageInputs == {FileOf("a.png", MAX_IMAGE_SIZE), FileOf("big.png", MAX_IMAGE_SIZE + 1)}
VideoInputs == {FileOf("a.mp4", MAX_VIDEO_SIZE), FileOf("big.mp4", MAX_VIDEO_SIZE + 1)}

\* what the user types: every input of a step filled in at once ...
FilledSteps ==
    {[f \in RenderedFields(s) |-> Str("x")] : s \in 1..4}

\* ... or one required input set or cleared
TypedFields == {"category_id", "title", "amount", "duration", "duration_type",
                "state_code", "city_code"}
SingleInputs ==
    {[f \in {g} |-> v] : g \in TypedFields, v \in {Str("x"), Str("")}}

\* the category list the backend serves
ServedCategories == <<[id |-> 1, title |-> "Flat", slug |-> "flat"]>>

\* the outcomes of POST /apartment: a response body, or a thrown error
PostOutcomes ==
    {[kind |-> "response", success |-> TRUE,  status |-> 200, message |-> ""],
     [kind |-> "response", success |-> FALSE, status |-> 200, message |-> "rejected"],
     [kind |-> "axios", success |-> FALSE, status |-> 401, message |-> ""],
     [kind |-> "axios", success |-> FALSE, status |-> 503, message |-> ""],
     [kind |-> "axios", success |-> FALSE, status |-> 422, message |-> "Title taken"],
     [kind |-> "axios", success |-> FALSE, status |-> 500, message |-> ""],
     [kind |-> "axios", success |-> FALSE, status |-> 0,   message |-> ""],
     [kind |-> "error", success |-> FALSE, status |-> 0,   message |-> ""]}

\* the outcomes of GET /apartment-types
GetOutcomes ==
    {[kind |-> "response", success |-> TRUE,  status |-> 200, message |-> ""],
     [kind |-> "response", success |-> FALSE, status |-> 200, message |-> ""],
     [kind |-> "axios", success |-> FALSE, status |-> 401, message |-> ""],
     [kind |-> "axios", success |-> FALSE, status |-> 500, message |-> ""]}

----------------------------------------------------------------------------
(* Alerts *)

NoNotice == ""
MsgLogin == "Please login to continue"
MsgNoImage == "Please upload at least one image"
MsgNoVideo == "Please upload at least one video"
MsgNoFiles == "Please upload at least one image and one video"
MsgNoToken == "Please login to add a property"
MsgAdded == "Property successfully added!"
MsgExpired == "Your session has expired. Please login again."
MsgUnavailable == "Service temporarily unavailable. Please try again later."
MsgFailed == "Failed to add property. Please try again."
MsgTooBig(file, maxSize) ==
    "File " \o file.s \o " exceeds maximum size limit of "
        \o ToString(maxSize \div (1024 * 1024)) \o "MB"

----------------------------------------------------------------------------
(* Helpers *)

EmptyMap == [k \in {} |-> ""]

\* {...prev, [fieldName]: url}
PutKey(prev, fieldName, url) ==
    [k \in (DOMAIN prev) \cup {fieldName} |-> IF k = fieldName THEN url ELSE prev[k]]

\* const newPreview = {...prev}; delete newPreview[fieldName]
DeleteKey(prev, fieldName) ==
    [k \in (DOMAIN prev) \ {fieldName} |-> prev[k]]

RemoveAt(seq, i) == [j \in 1..(Len(seq) - 1) |-> IF j < i THEN seq[j] ELSE seq[j + 1]]

\* the n-th URL handed out by URL.createObjectURL
BlobUrl(n) == "blob:" \o ToString(n)

\* the blob URLs released so far: the component calls URL.revokeObjectURL nowhere
\* (not in removeFile, not in the reset of onSubmit, and no effect has a cleanup)
RevokedBlobs == {}

\* the updater of handleAmenityToggle with the removal branch left out
ToggleAmenityAppendOnly(prev, amenity) == Append(prev, amenity)

\* prev.includes(amenity) ? prev.filter(a => a !== amenity) : [...prev, amenity]
ToggleAmenity(prev, amenity) ==
    LET Keep(a) == a # amenity
    IN  IF amenity \in Range(prev) THEN SelectSeq(prev, Keep) ELSE Append(prev, amenity)

TypeOf(fieldName) == IF fieldName \in Range(imageFields) THEN "image" ELSE "video"

\* getAuthToken(): localStorage.getItem('token')
getAuthToken == token

\* `Bearer ${token}` (a null token is interpolated as the text "null")
Bearer(tok) == "Bearer " \o (IF tok.t = "null" THEN "null" ELSE tok.s)

\* imageFields.some(field => data[field]) / videoFields.some(field => data[field])
HasImage(data) == \E i \in 1..Len(imageFields) : Truthy(data[imageFields[i]])
HasVideo(data) == \E i \in 1..Len(videoFields) : Truthy(data[videoFields[i]])

\* the switch of validateStep: the fields handed to trigger()
FieldsToValidate(s) ==
    CASE s = 1 -> {"category_id", "title", "number_of_rooms", "description"}
      [] s = 2 -> {"amount", "currency_code", "security_deposit"}
      [] s = 3 -> {"duration", "duration_type", "amenities"}
      [] s = 4 -> {"country_code", "state_code", "city_code"}
      [] OTHER -> {}

\* react-hook-form trigger(names): every named field that carries a rule passes it
Trigger(names, vals) == \A f \in names \cap RequiredFields : ~IsEmpty(vals[f])

\* validateStep with the video check of step 5 left out
ValidateStepImageOnly(s, vals, fls) ==
    IF s = 5
    THEN IF ~(\E i \in 1..Len(imageFields) : Truthy(fls[imageFields[i]]))
         THEN [ok |-> FALSE, notice |-> MsgNoImage]
         ELSE [ok |-> TRUE, notice |-> NoNotice]
    ELSE [ok |-> \A f \in FieldsToValidate(s) \cap RequiredFields : ~IsEmpty(vals[f]),
          notice |-> NoNotice]

\* validateStep(), run by a handler whose render had step s:
\* the result and the alert it raises
ValidateStep(s, vals, fls) ==
    IF s = 5
    THEN IF ~HasImage(fls) THEN [ok |-> FALSE, notice |-> MsgNoImage]
         ELSE IF ~HasVideo(fls) THEN [ok |-> FALSE, notice |-> MsgNoVideo]
         ELSE [ok |-> TRUE, notice |-> NoNotice]
    ELSE [ok |-> Trigger(FieldsToValidate(s), vals), notice |-> NoNotice]

Min(a, b) == IF a < b THEN a ELSE b
Max(a, b) == IF a > b THEN a ELSE b

\* the size limit with the type ignored
MaxSizeOfAnyType(type) == MAX_VIDEO_SIZE

\* maxSize = type === 'image' ? MAX_IMAGE_SIZE : MAX_VIDEO_SIZE
MaxSizeOf(type) == IF type = "image" THEN MAX_IMAGE_SIZE ELSE MAX_VIDEO_SIZE

\* the values written by the success branch of onSubmit
ResetValues ==
    [f \in ScalarFields |->
        CASE f = "category_id"   -> Num("0")
          [] f = "title"         -> Str("")
          [] f = "description"   -> Null
          [] f = "number_of_rooms" -> Null
          [] f = "amount"        -> Num("0")
          [] f = "currency_code" -> Str("NGN")
          [] f = "security_deposit" -> Null
          [] f = "security_deposit_currency_code" -> Null
          [] f = "duration"      -> Num("0")
          [] f = "duration_type" -> Str("month")
          [] f = "country_code"  -> Str("NG")
          [] f = "state_code"    -> Str("")
          [] f = "city_code"     -> Str("")]

ResetFiles == [f \in FileFields |-> Null]

\* JSON.stringify(string[])
RECURSIVE JoinQuoted(_)
JoinQuoted(seq) ==
    IF Len(seq) = 0 THEN ""
    ELSE IF Len(seq) = 1 THEN "\"" \o seq[1] \o "\""
    ELSE "\"" \o seq[1] \o "\"," \o JoinQuoted(Tail(seq))

JsonStringify(seq) == "[" \o JoinQuoted(seq) \o "]"

\* the FormData of onSubmit with the `published` flag switched on
FormDataOfPublished(vals, fls, amenities) ==
    LET fileKeys == {k \in FileFields : IsFile(fls[k])}
        scalarKeys == {k \in ScalarFields : vals[k].t \notin {"null", "undefined"}}
    IN  [k \in fileKeys \cup scalarKeys \cup {"amenities", "published", "can_rate"} |->
            CASE k \in fileKeys   -> fls[k]
              [] k = "amenities"  -> Str(JsonStringify(amenities))
              [] k = "published"  -> Str("true")
              [] k = "can_rate"   -> Str("false")
              [] OTHER            -> Str(ToStr(vals[k]))]

\* the FormData built by onSubmit from data (the form store) and the
\* selectedAmenities of the render
FormDataOf(vals, fls, amenities) ==
    LET fileKeys == {k \in FileFields : IsFile(fls[k])}
        scalarKeys == {k \in ScalarFields : vals[k].t \notin {"null", "undefined"}}
    IN  [k \in fileKeys \cup scalarKeys \cup {"amenities", "published", "can_rate"} |->
            CASE k \in fileKeys   -> fls[k]
              [] k = "amenities"  -> Str(JsonStringify(amenities))
              [] k = "published"  -> Str("false")
              [] k = "can_rate"   -> Str("false")
              [] OTHER            -> Str(ToStr(vals[k]))]

GetCategories(tok) ==
    [method |-> "GET", url |-> "/apartment-types", auth |-> Bearer(tok), body |-> EmptyMap]

PostApartment(tok, formData) ==
    [method |-> "POST", url |-> "/apartment", auth |-> Bearer(tok), body |-> formData]

\* the last render is the current state
Fresh == view = [step |-> step, isLoading |-> isLoading]

\* the instance is on the page: its mount effect has run and it has not been
\* torn down (the user can act on it)
Mounted == mounted /\ ~unmounted

\* setX(next) of a useState cell: React drops the update of an unmounted component
SetState(cell, next) == IF unmounted THEN cell ELSE next

----------------------------------------------------------------------------
(* Checkout: the values of its state cells *)

\* a PlansInterface object, and `undefined` in its place
PlanOf(id, name) == [defined |-> TRUE, id |-> id, name |-> name]
NoPlan == [defined |-> FALSE, id |-> 0, name |-> ""]

\* the `plans` prop: a list, or left out
PlansOf(list) == [defined |-> TRUE, list |-> list]
NoPlans == [defined |-> FALSE, list |-> <<>>]

\* the element stored in a gateway's `component`: the handler and its plan prop
ComponentOf(handler, plan) == [handler |-> handler, plan |-> plan]
NoComponent == [handler |-> "", plan |-> NoPlan]

NoGateway ==
    [defined |-> FALSE, title |-> "", slug |-> "", active |-> FALSE,
     component |-> NoComponent]

NoResponse == [defined |-> FALSE, status |-> ""]

CheckoutRoute == "/checkout"
LoginRoute == "/auth/login"

MsgGateway == "Gateway Not Available"

\* the gateways array with every handler created without its plan prop
GatewaysWithoutPlan(renderPlan) ==
    <<[defined |-> TRUE, title |-> "Bank Transfer", slug |-> "bank-transfer",
       active |-> TRUE, component |-> ComponentOf("BankTransfer", NoPlan)],
      [defined |-> TRUE, title |-> "Paystack", slug |-> "paystack",
       active |-> FALSE, component |-> ComponentOf("Paystack", NoPlan)]>>

\* const gateways = [...], built by the render whose selectedPlan is renderPlan
Gateways(renderPlan) ==
    <<[defined |-> TRUE, title |-> "Bank Transfer", slug |-> "bank-transfer",
       active |-> TRUE, component |-> ComponentOf("BankTransfer", renderPlan)],
      [defined |-> TRUE, title |-> "Paystack", slug |-> "paystack",
       active |-> FALSE, component |-> ComponentOf("Paystack", renderPlan)]>>

\* set[0] of a filter result: its first element, `undefined` when it is empty
FirstOf(set, none) == IF Len(set) > 0 THEN set[1] ELSE none

\* the plans the page is given, and the responses a gateway handler reports
Basic == PlanOf(1, "Basic")
Standard == PlanOf(2, "Standard")
Premium == PlanOf(3, "Premium")
PlanProps ==
    {NoPlans, PlansOf(<<>>), PlansOf(<<Basic>>), PlansOf(<<Basic, Standard>>),
     PlansOf(<<Basic, Standard, Premium>>)}
PlanIdInputs == {1, 2, 3}
GatewayResponses ==
    {[defined |-> TRUE, status |-> "success"], [defined |-> TRUE, status |-> "failed"]}

----------------------------------------------------------------------------
(* The AddProperty wizard *)

\* the Checkout component after construction, given its props and the store
CheckoutInit(plansProp, loggedIn) ==
    /\ plans = plansProp
    /\ selectedPlan = NoPlan
    /\ selectedGateway = NoGateway
    /\ gatewayResponse = NoResponse
    /\ alerted = NoNotice
    /\ isLoggedIn = loggedIn
    /\ route = CheckoutRoute

\* the AddProperty component after construction
WizardInit ==
    /\ step = 1
    /\ isLoading = FALSE
    /\ view = [step |-> 1, isLoading |-> FALSE]
    /\ values = DefaultValues
    /\ amenitiesField = <<>>
    /\ files = DefaultFiles
    /\ imagePreview = EmptyMap
    /\ videoPreview = EmptyMap
    /\ selectedAmenities = <<>>
    /\ categories = <<>>
    /\ token \in {Null, Str("tok")}
    /\ requests = <<>>
    /\ readers = {}
    /\ blobCount = 0
    /\ notice = NoNotice
    /\ mounted = FALSE
    /\ returned = "none"
    /\ unmounted = FALSE

Init ==
    /\ WizardInit
    /\ CheckoutInit(NoPlans, TRUE)

\* useEffect(() => { fetchCategories() }, []): runs once, after the first render,
\* up to the await of axios.get
FetchCategories ==
    /\ ~mounted
    /\ mounted' = TRUE
    /\ requests' = Append(requests, GetCategories(getAuthToken))
    /\ notice' = NoNotice
    /\ UNCHANGED <<step, isLoading, view, values, amenitiesField, files, imagePreview,
                   videoPreview, selectedAmenities, categories, token, readers,
                   blobCount, returned>>
    /\ UNCHANGED <<unmounted, checkoutVars>>

\* fetchCategories storing the data of any response, whatever its success flag
CategoriesSettledAnyResponse(i, o) ==
    /\ mounted
    /\ i \in 1..Len(requests)
    /\ requests[i].method = "GET"
    /\ requests' = RemoveAt(requests, i)
    /\ categories' = IF o.kind = "response" THEN ServedCategories ELSE categories
    /\ notice' = IF o.kind = "axios" /\ o.status = 401 THEN MsgLogin ELSE NoNotice
    /\ UNCHANGED <<step, isLoading, view, values, amenitiesField, files, imagePreview,
                   videoPreview, selectedAmenities, token, readers, blobCount, mounted, returned>>
    /\ UNCHANGED <<unmounted, checkoutVars>>

\* fetchCategories after the await: the response, or the catch block
CategoriesSettled(i, o) ==
    /\ mounted
    /\ i \in 1..Len(requests)
    /\ requests[i].method = "GET"
    /\ requests' = RemoveAt(requests, i)
    /\ categories' = IF o.kind = "response" /\ o.success
                     THEN SetState(categories, ServedCategories)
                     ELSE categories
    /\ notice' = IF o.kind = "axios" /\ o.status = 401 THEN MsgLogin ELSE NoNotice
    /\ UNCHANGED <<step, isLoading, view, values, amenitiesField, files, imagePreview,
                   videoPreview, selectedAmenities, token, readers, blobCount, mounted, returned>>
    /\ UNCHANGED <<unmounted, checkoutVars>>

\* the user types into (or clears) inputs registered with the form; entry maps
\* the inputs touched since the last click to what they now hold
ChangeInput(entry) ==
    /\ Mounted
    /\ Fresh
    /\ DOMAIN entry # {}
    /\ DOMAIN entry \subseteq RenderedFields(view.step)
    /\ values' = [f \in ScalarFields |-> IF f \in DOMAIN entry THEN entry[f] ELSE values[f]]
    /\ notice' = NoNotice
    /\ UNCHANGED <<step, isLoading, view, amenitiesField, files, imagePreview,
                   videoPreview, selectedAmenities, categories, token, requests,
                   readers, blobCount, mounted, returned>>
    /\ UNCHANGED <<unmounted, checkoutVars>>

\* handleAmenityToggle(amenity), from a checkbox of step 3
HandleAmenityToggle(amenity) ==
    /\ Mounted
    /\ Fresh
    /\ view.step = 3
    /\ LET newAmenities == ToggleAmenity(selectedAmenities, amenity)
       IN  /\ selectedAmenities' = newAmenities
           /\ amenitiesField' = newAmenities
    /\ notice' = NoNotice
    /\ UNCHANGED <<step, isLoading, view, values, files, imagePreview, videoPreview,
                   categories, token, requests, readers, blobCount, mounted, returned>>
    /\ UNCHANGED <<unmounted, checkoutVars>>

\* handleFileChange(fieldName, type)(event) with event.target.files empty
HandleFileChangeNoFile(fieldName) ==
    /\ Mounted
    /\ Fresh
    /\ view.step = 5
    /\ notice' = NoNotice
    /\ UNCHANGED <<step, isLoading, view, values, amenitiesField, files, imagePreview,
                   videoPreview, selectedAmenities, categories, token, requests,
                   readers, blobCount, mounted, returned>>
    /\ UNCHANGED <<unmounted, checkoutVars>>

\* handleFileChange(fieldName, type)(event) with event.target.files[0] = file
HandleFileChange(fieldName, type, file) ==
    /\ Mounted
    /\ Fresh
    /\ view.step = 5
    /\ IF file.size > MaxSizeOf(type)
       THEN /\ notice' = MsgTooBig(file, MaxSizeOf(type))
            /\ UNCHANGED <<files, readers>>
       ELSE /\ LET reader == [field |-> fieldName, type |-> type, file |-> file]
               IN  /\ reader \notin readers
                   /\ Cardinality(readers) < MaxReaders
                   /\ type = "video" =>
                        blobCount + Cardinality({r \in readers : r.type = "video"}) < MaxBlobs
                   /\ readers' = readers \cup {reader}
            /\ files' = [files EXCEPT ![fieldName] = file]
            /\ notice' = NoNotice
    /\ UNCHANGED <<step, isLoading, view, values, amenitiesField, imagePreview,
                   videoPreview, selectedAmenities, categories, token, requests,
                   blobCount, mounted, returned>>
    /\ UNCHANGED <<unmounted, checkoutVars>>

\* reader.onloadend
\* (after a teardown React drops both updates; whether it still runs the updater
\* of setVideoPreview, and so createObjectURL, is left open)
ReaderLoadEnd(reader) ==
    /\ mounted
    /\ reader \in readers
    /\ readers' = readers \ {reader}
    /\ IF reader.type = "image"
       THEN /\ imagePreview' = SetState(imagePreview,
                    PutKey(imagePreview, reader.field, "data:" \o reader.file.s))
            /\ UNCHANGED <<videoPreview, blobCount>>
       ELSE /\ videoPreview' = SetState(videoPreview,
                    PutKey(videoPreview, reader.field, BlobUrl(blobCount + 1)))
            /\ \E ran \in (IF unmounted THEN BOOLEAN ELSE {TRUE}) :
                    blobCount' = IF ran THEN blobCount + 1 ELSE blobCount
            /\ UNCHANGED imagePreview
    /\ notice' = NoNotice
    /\ UNCHANGED <<step, isLoading, view, values, amenitiesField, files,
                   selectedAmenities, categories, token, requests, mounted, returned>>
    /\ UNCHANGED <<unmounted, checkoutVars>>

\* removeFile dropping the whole preview map instead of one key
RemoveFileAllPreviews(fieldName, type) ==
    /\ Mounted
    /\ Fresh
    /\ view.step = 5
    /\ fieldName \in DOMAIN (IF type = "image" THEN imagePreview ELSE videoPreview)
    /\ files' = [files EXCEPT ![fieldName] = Null]
    /\ IF type = "image"
       THEN /\ imagePreview' = EmptyMap
            /\ UNCHANGED videoPreview
       ELSE /\ videoPreview' = EmptyMap
            /\ UNCHANGED imagePreview
    /\ notice' = NoNotice
    /\ UNCHANGED <<step, isLoading, view, values, amenitiesField, selectedAmenities,
                   categories, token, requests, readers, blobCount, mounted, returned>>
    /\ UNCHANGED <<unmounted, checkoutVars>>

\* removeFile(fieldName, type), from the button drawn over a slot's preview
RemoveFile(fieldName, type) ==
    /\ Mounted
    /\ Fresh
    /\ view.step = 5
    /\ fieldName \in DOMAIN (IF type = "image" THEN imagePreview ELSE videoPreview)
    /\ files' = [files EXCEPT ![fieldName] = Null]
    /\ IF type = "image"
       THEN /\ imagePreview' = DeleteKey(imagePreview, fieldName)
            /\ UNCHANGED videoPreview
       ELSE /\ videoPreview' = DeleteKey(videoPreview, fieldName)
            /\ UNCHANGED imagePreview
    /\ notice' = NoNotice
    /\ UNCHANGED <<step, isLoading, view, values, amenitiesField, selectedAmenities,
                   categories, token, requests, readers, blobCount, mounted, returned>>
    /\ UNCHANGED <<unmounted, checkoutVars>>

\* nextStep advancing whatever validateStep returned
NextStepUnchecked ==
    /\ Mounted
    /\ view.step < 5
    /\ step' = Min(step + 1, 5)
    /\ notice' = ValidateStep(view.step, values, files).notice
    /\ UNCHANGED <<isLoading, view, values, amenitiesField, files, imagePreview,
                   videoPreview, selectedAmenities, categories, token, requests,
                   readers, blobCount, mounted, returned>>
    /\ UNCHANGED <<unmounted, checkoutVars>>

\* nextStep(), from the Next button (rendered while step < 5)
NextStep ==
    /\ Mounted
    /\ view.step < 5
    /\ LET isValid == ValidateStep(view.step, values, files)
       IN  /\ step' = IF isValid.ok THEN Min(step + 1, 5) ELSE step
           /\ notice' = isValid.notice
    /\ UNCHANGED <<isLoading, view, values, amenitiesField, files, imagePreview,
                   videoPreview, selectedAmenities, categories, token, requests,
                   readers, blobCount, mounted, returned>>
    /\ UNCHANGED <<unmounted, checkoutVars>>

\* prevStep without the Math.max
PrevStepUnclamped ==
    /\ Mounted
    /\ view.step > 1
    /\ step' = step - 1
    /\ view' = [step |-> step', isLoading |-> isLoading]
    /\ notice' = NoNotice
    /\ UNCHANGED <<isLoading, values, amenitiesField, files, imagePreview, videoPreview,
                   selectedAmenities, categories, token, requests, readers,
                   blobCount, mounted, returned>>
    /\ UNCHANGED <<unmounted, checkoutVars>>

\* prevStep(), from the Previous button (rendered while step > 1)
PrevStep ==
    /\ Mounted
    /\ view.step > 1
    /\ step' = Max(step - 1, 1)
    /\ view' = [step |-> step', isLoading |-> isLoading]
    /\ notice' = NoNotice
    /\ UNCHANGED <<isLoading, values, amenitiesField, files, imagePreview, videoPreview,
                   selectedAmenities, categories, token, requests, readers,
                   blobCount, mounted, returned>>
    /\ UNCHANGED <<unmounted, checkoutVars>>

\* React commits the updates made by asynchronous continuations
Render ==
    /\ ~unmounted
    /\ ~Fresh
    /\ view' = [step |-> step, isLoading |-> isLoading]
    /\ UNCHANGED <<step, isLoading, values, amenitiesField, files, imagePreview,
                   videoPreview, selectedAmenities, categories, token, requests,
                   readers, blobCount, notice, mounted, returned>>
    /\ UNCHANGED <<unmounted, checkoutVars>>

\* onSubmit without its `if (step !== 5) return`
OnSubmitAnyStep(renderStep) ==
    IF ~HasImage(files) \/ ~HasVideo(files)
    THEN /\ notice' = MsgNoFiles
         /\ UNCHANGED <<isLoading, requests>>
    ELSE IF ~Truthy(getAuthToken)
    THEN /\ notice' = MsgNoToken
         /\ isLoading' = FALSE
         /\ UNCHANGED requests
    ELSE /\ Cardinality({j \in 1..Len(requests) : requests[j].method = "POST"}) < MaxPosts
         /\ isLoading' = TRUE
         /\ requests' = Append(requests,
                PostApartment(getAuthToken, FormDataOf(values, files, selectedAmenities)))
         /\ notice' = NoNotice

\* onSubmit(data) up to the await of axios.post; renderStep is the `step` of the
\* render whose handler runs, data the form store handed over by handleSubmit
OnSubmit(renderStep) ==
    IF renderStep # 5
    THEN /\ notice' = NoNotice
         /\ UNCHANGED <<isLoading, requests>>
    ELSE IF ~HasImage(files) \/ ~HasVideo(files)
    THEN /\ notice' = MsgNoFiles
         /\ UNCHANGED <<isLoading, requests>>
    ELSE IF ~Truthy(getAuthToken)
    THEN \* setIsLoading(true) ... showAlert; setIsLoading(false); return
         /\ notice' = MsgNoToken
         /\ isLoading' = FALSE
         /\ UNCHANGED requests
    ELSE /\ Cardinality({j \in 1..Len(requests) : requests[j].method = "POST"}) < MaxPosts
         /\ isLoading' = TRUE
         /\ requests' = Append(requests,
                PostApartment(getAuthToken, FormDataOf(values, files, selectedAmenities)))
         /\ notice' = NoNotice

\* a submit event of the form: handleSubmit(onSubmit).  At step 5 it comes from the
\* submit button (disabled={isLoading}), at the other steps from the Enter key.
\* handleSubmit validates the registered fields first (all of them, or only the
\* mounted ones, depending on the react-hook-form release) and calls onSubmit only
\* when they pass.
SubmitEvent ==
    /\ Mounted
    /\ view.step = 5 => ~view.isLoading
    /\ \E mountedOnly \in BOOLEAN :
        LET names == IF mountedOnly THEN RenderedFields(view.step) ELSE RequiredFields
        IN  IF Trigger(names, values)
            THEN OnSubmit(view.step)
            ELSE /\ notice' = NoNotice
                 /\ UNCHANGED <<isLoading, requests>>
    /\ UNCHANGED <<step, view, values, amenitiesField, files, imagePreview, videoPreview,
                   selectedAmenities, categories, token, readers, blobCount, mounted, returned>>
    /\ UNCHANGED <<unmounted, checkoutVars>>

\* the alert of the catch block of onSubmit
CatchNotice(o) ==
    IF o.kind = "axios"
    THEN IF o.status = 401 THEN MsgExpired
         ELSE IF o.status = 503 THEN MsgUnavailable
         ELSE IF o.message # "" THEN o.message ELSE MsgFailed
    ELSE NoNotice

\* onSubmit resetting the form after the await whatever the response says
SubmitSettledAlwaysReset(i, o) ==
    /\ mounted
    /\ i \in 1..Len(requests)
    /\ requests[i].method = "POST"
    /\ requests' = RemoveAt(requests, i)
    /\ notice' = IF o.kind = "response" /\ o.success THEN MsgAdded ELSE CatchNotice(o)
    /\ values' = ResetValues
    /\ amenitiesField' = <<>>
    /\ files' = ResetFiles
    /\ imagePreview' = EmptyMap
    /\ videoPreview' = EmptyMap
    /\ selectedAmenities' = <<>>
    /\ step' = 1
    /\ isLoading' = FALSE
    /\ UNCHANGED <<view, categories, token, readers, blobCount, mounted, returned>>
    /\ UNCHANGED <<unmounted, checkoutVars>>

\* onSubmit after the await without its `finally { setIsLoading(false) }`
SubmitSettledKeepsLoading(i, o) ==
    /\ mounted
    /\ i \in 1..Len(requests)
    /\ requests[i].method = "POST"
    /\ requests' = RemoveAt(requests, i)
    /\ IF o.kind = "response" /\ o.success
       THEN /\ notice' = MsgAdded
            /\ values' = ResetValues
            /\ amenitiesField' = <<>>
            /\ files' = ResetFiles
            /\ imagePreview' = SetState(imagePreview, EmptyMap)
            /\ videoPreview' = SetState(videoPreview, EmptyMap)
            /\ selectedAmenities' = SetState(selectedAmenities, <<>>)
            /\ step' = SetState(step, 1)
       ELSE /\ notice' = CatchNotice(o)
            /\ UNCHANGED <<values, amenitiesField, files, imagePreview, videoPreview,
                           selectedAmenities, step>>
    /\ UNCHANGED <<isLoading, view, categories, token, readers, blobCount, mounted, returned>>
    /\ UNCHANGED <<unmounted, checkoutVars>>

\* onSubmit after the await of axios.post: the response, the catch block, finally
SubmitSettled(i, o) ==
    /\ mounted
    /\ i \in 1..Len(requests)
    /\ requests[i].method = "POST"
    /\ requests' = RemoveAt(requests, i)
    /\ IF o.kind = "response" /\ o.success
       THEN /\ notice' = MsgAdded
            /\ values' = ResetValues
            /\ amenitiesField' = <<>>
            /\ files' = ResetFiles
            /\ imagePreview' = SetState(imagePreview, EmptyMap)
            /\ videoPreview' = SetState(videoPreview, EmptyMap)
            /\ selectedAmenities' = SetState(selectedAmenities, <<>>)
            /\ step' = SetState(step, 1)
       ELSE /\ notice' = CatchNotice(o)
            /\ UNCHANGED <<values, amenitiesField, files, imagePreview, videoPreview,
                           selectedAmenities, step>>
    /\ isLoading' = SetState(isLoading, FALSE)
    /\ UNCHANGED <<view, categories, token, readers, blobCount, mounted, returned>>
    /\ UNCHANGED <<unmounted, checkoutVars>>

PostsInFlight == {j \in 1..Len(requests) : requests[j].method = "POST"}

\* the user lets a submission settle before touching the form again
\* (only the submit button is clicked again while a request is in flight)
Patient == PostsInFlight = {}

\* The whole flow, from mount to the settled submission: the steps are filled
\* in one go, one slot of each kind is used, and the user is patient.
Next ==
    \/ FetchCategories
    \/ \E i \in 1..(MaxPosts + 1), o \in GetOutcomes : CategoriesSettled(i, o)
    \/ \E e \in FilledSteps : Patient /\ ChangeInput(e)
    \/ Patient /\ HandleAmenityToggle("WiFi")
    \/ Patient /\ HandleFileChange("image1", "image", FileOf("a.png", MAX_IMAGE_SIZE))
    \/ Patient /\ HandleFileChange("video1", "video", FileOf("a.mp4", MAX_VIDEO_SIZE))
    \/ \E r \in readers : ReaderLoadEnd(r)
    \/ Patient /\ RemoveFile("image1", "image")
    \/ Patient /\ RemoveFile("video1", "video")
    \/ Patient /\ NextStep
    \/ Patient /\ PrevStep
    \/ SubmitEvent
    \/ \E i \in 1..(MaxPosts + 1), o \in PostOutcomes : SubmitSettled(i, o)
    \/ Render

Spec == Init /\ [][Next]_vars

\* Moving between the steps: the inputs are typed one at a time, no file is
\* attached.
NextSteps ==
    \/ FetchCategories
    \/ \E e \in SingleInputs : ChangeInput(e)
    \/ NextStep
    \/ PrevStep
    \/ SubmitEvent
    \/ Render

SpecSteps == Init /\ [][NextSteps]_vars

\* the slots the user attaches files to
UsedImageFields == {"image1", "image2"}
UsedVideoFields == {"video1", "video2"}

\* Attaching media: the user goes straight to step 5 and works on two slots of
\* each kind, with files at and over the size limit.
NextMedia ==
    \/ FetchCategories
    \/ \E e \in FilledSteps : ChangeInput(e)
    \/ NextStep
    \/ Render
    \/ \E f \in UsedImageFields \cup UsedVideoFields : HandleFileChangeNoFile(f)
    \/ \E f \in UsedImageFields, file \in ImageInputs : HandleFileChange(f, "image", file)
    \/ \E f \in UsedVideoFields, file \in VideoInputs : HandleFileChange(f, "video", file)
    \/ \E r \in readers : ReaderLoadEnd(r)
    \/ \E f \in UsedImageFields : RemoveFile(f, "image")
    \/ \E f \in UsedVideoFields : RemoveFile(f, "video")

SpecMedia == Init /\ [][NextMedia]_vars

\* the component is torn down (the user leaves the page): there is no effect
\* cleanup, so requests and readers stay pending
Unmount ==
    /\ Mounted
    /\ unmounted' = TRUE
    /\ notice' = NoNotice
    /\ UNCHANGED <<step, isLoading, view, values, amenitiesField, files, imagePreview,
                   videoPreview, selectedAmenities, categories, token, requests,
                   readers, blobCount, mounted, returned>>
    /\ UNCHANGED checkoutVars

\* Leaving the page at any point of a short flow: the steps are filled in, one
\* image and one video are attached, the form is submitted.
NextTeardown ==
    \/ FetchCategories
    \/ \E i \in 1..(MaxPosts + 1), o \in GetOutcomes : CategoriesSettled(i, o)
    \/ \E e \in FilledSteps : Patient /\ ChangeInput(e)
    \/ Patient /\ HandleFileChange("image1", "image", FileOf("a.png", MAX_IMAGE_SIZE))
    \/ Patient /\ HandleFileChange("video1", "video", FileOf("a.mp4", MAX_VIDEO_SIZE))
    \/ \E r \in readers : ReaderLoadEnd(r)
    \/ Patient /\ RemoveFile("video1", "video")
    \/ Patient /\ NextStep
    \/ SubmitEvent
    \/ \E i \in 1..(MaxPosts + 1), o \in PostOutcomes : SubmitSettled(i, o)
    \/ Render
    \/ Unmount

SpecTeardown == Init /\ [][NextTeardown]_vars

\* the amenities the user toggles
ToggledAmenities == {"WiFi", "Gym"}

\* Choosing amenities: the flow from mount to the settled submission with the
\* checkboxes of step 3 toggled in any order.
NextAmenities ==
    \/ FetchCategories
    \/ \E e \in FilledSteps : Patient /\ ChangeInput(e)
    \/ \E a \in ToggledAmenities : Patient /\ HandleAmenityToggle(a)
    \/ Patient /\ HandleFileChange("image1", "image", FileOf("a.png", MAX_IMAGE_SIZE))
    \/ Patient /\ HandleFileChange("video1", "video", FileOf("a.mp4", MAX_VIDEO_SIZE))
    \/ \E r \in readers : ReaderLoadEnd(r)
    \/ Patient /\ NextStep
    \/ Patient /\ PrevStep
    \/ SubmitEvent
    \/ \E i \in 1..(MaxPosts + 1), o \in PostOutcomes : SubmitSettled(i, o)
    \/ Render

SpecAmenities == Init /\ [][NextAmenities]_vars

\* Submitting: the user goes to step 5, attaches one image and one video and
\* submits, with or without a token, whatever the server answers.
NextSubmit ==
    \/ FetchCategories
    \/ \E e \in FilledSteps : Patient /\ ChangeInput(e)
    \/ Patient /\ HandleFileChange("image1", "image", FileOf("a.png", MAX_IMAGE_SIZE))
    \/ Patient /\ HandleFileChange("video1", "video", FileOf("a.mp4", MAX_VIDEO_SIZE))
    \/ \E r \in readers : ReaderLoadEnd(r)
    \/ Patient /\ NextStep
    \/ SubmitEvent
    \/ \E i \in 1..(MaxPosts + 1), o \in PostOutcomes : SubmitSettled(i, o)
    \/ Render

\* every request settles (the continuation of `await axios.post` runs), and React
\* renders the updates it has been handed
SpecSubmit ==
    /\ Init
    /\ [][NextSubmit]_vars
    /\ WF_vars(\E i \in 1..(MaxPosts + 1), o \in PostOutcomes : SubmitSettled(i, o))
    /\ WF_vars(Render)

\* validateStep() called on its own, from the render the user sees
CallValidateStep ==
    /\ Mounted
    /\ Fresh
    /\ LET result == ValidateStep(view.step, values, files)
       IN  /\ returned' = IF result.ok THEN "true" ELSE "false"
           /\ notice' = result.notice
    /\ UNCHANGED <<step, isLoading, view, values, amenitiesField, files, imagePreview,
                   videoPreview, selectedAmenities, categories, token, requests,
                   readers, blobCount, mounted>>
    /\ UNCHANGED <<unmounted, checkoutVars>>

\* validateStep as a function of the form: the media flow, with validateStep
\* called at any point of it
NextValidate ==
    \/ NextMedia
    \/ CallValidateStep

SpecValidate == Init /\ [][NextValidate]_vars

----------------------------------------------------------------------------
(* getUserSubscriptions(page, search): what it sends and whether it throws *)

GetUserSubscriptions(tok, page, search) ==
    IF ~Truthy(tok)
    THEN [threw |-> "No authentication token found", sent |-> <<>>]
    ELSE [threw |-> "",
          sent |-> <<[method |-> "GET",
                      url |-> "/subscriptions?page=" \o ToString(page) \o "&search=" \o search,
                      auth |-> Bearer(tok), body |-> EmptyMap]>>]

----------------------------------------------------------------------------
(* The Checkout component.  Its handlers are click handlers: their updates are *)
(* committed before the next event, so every handler sees the current state.   *)

\* the return of Checkout with the payment methods never shown
RenderedViewPlanFirst ==
    IF selectedGateway.defined /\ selectedPlan.defined
    THEN [kind |-> "handler", component |-> selectedGateway.component]
    ELSE [kind |-> "PlanSelection", component |-> NoComponent]

\* (selectedGateway && selectedPlan) ? selectedGateway.component
\*     : selectedPlan ? SelectPaymentMethod() : PlanSelection()
RenderedView ==
    IF selectedGateway.defined /\ selectedPlan.defined
    THEN [kind |-> "handler", component |-> selectedGateway.component]
    ELSE IF selectedPlan.defined
    THEN [kind |-> "SelectPaymentMethod", component |-> NoComponent]
    ELSE [kind |-> "PlanSelection", component |-> NoComponent]

\* selectedPlanIs(id)
SelectedPlanIs(id) ==
    LET Match(r) == r.id = id
    IN  IF plans.defined
        THEN selectedPlan' = FirstOf(SelectSeq(plans.list, Match), NoPlan)
        ELSE UNCHANGED selectedPlan

\* selectedPaymentMethodIs without its `if (!active)` return
SelectedPaymentMethodIsUnguarded(slug, active) ==
    LET Match(r) == r.slug = slug
    IN  /\ alerted' = NoNotice
        /\ selectedGateway' = FirstOf(SelectSeq(Gateways(selectedPlan), Match), NoGateway)

\* selectedPaymentMethodIs(slug, active)
SelectedPaymentMethodIs(slug, active) ==
    LET Match(r) == r.slug = slug
    IN  IF ~active
        THEN /\ alerted' = MsgGateway
             /\ UNCHANGED selectedGateway
        ELSE /\ alerted' = NoNotice
             /\ selectedGateway' = FirstOf(SelectSeq(Gateways(selectedPlan), Match), NoGateway)

\* useEffect(() => { if (!isLoggedIn) router.push('/auth/login') })
RedirectToLogin ==
    /\ route = CheckoutRoute
    /\ ~isLoggedIn
    /\ route' = LoginRoute
    /\ UNCHANGED <<plans, selectedPlan, selectedGateway, gatewayResponse, alerted, isLoggedIn>>
    /\ UNCHANGED wizardVars

\* the "Get Started" button of the i-th plan card of PlanSelection
ClickPlan(i) ==
    /\ route = CheckoutRoute
    /\ RenderedView.kind = "PlanSelection"
    /\ plans.defined
    /\ i \in 1..Len(plans.list)
    /\ SelectedPlanIs(plans.list[i].id)
    /\ alerted' = NoNotice
    /\ UNCHANGED <<plans, selectedGateway, gatewayResponse, isLoggedIn, route>>
    /\ UNCHANGED wizardVars

\* the button of the i-th gateway of SelectPaymentMethod
ClickGateway(i) ==
    /\ route = CheckoutRoute
    /\ RenderedView.kind = "SelectPaymentMethod"
    /\ i \in 1..Len(Gateways(selectedPlan))
    /\ LET way == Gateways(selectedPlan)[i]
       IN  SelectedPaymentMethodIs(way.slug, way.active)
    /\ UNCHANGED <<plans, selectedPlan, gatewayResponse, isLoggedIn, route>>
    /\ UNCHANGED wizardVars

\* the completion callback clearing the gateway as well
GatewayCompletedAdvances(response) ==
    /\ route = CheckoutRoute
    /\ RenderedView.kind = "handler"
    /\ gatewayResponse' = response
    /\ selectedGateway' = NoGateway
    /\ alerted' = NoNotice
    /\ UNCHANGED <<plans, selectedPlan, isLoggedIn, route>>
    /\ UNCHANGED wizardVars

\* the rendered handler calls onCompleted(response), i.e. setGatewayResponse
GatewayCompleted(response) ==
    /\ route = CheckoutRoute
    /\ RenderedView.kind = "handler"
    /\ gatewayResponse' = response
    /\ alerted' = NoNotice
    /\ UNCHANGED <<plans, selectedPlan, selectedGateway, isLoggedIn, route>>
    /\ UNCHANGED wizardVars

\* selectedPlanIs(id) called on its own, whatever is rendered
CallSelectedPlanIs(id) ==
    /\ route = CheckoutRoute
    /\ SelectedPlanIs(id)
    /\ alerted' = NoNotice
    /\ UNCHANGED <<plans, selectedGateway, gatewayResponse, isLoggedIn, route>>
    /\ UNCHANGED wizardVars

\* the page is opened with any of the plan lists, logged in or not
InitCheckout ==
    /\ WizardInit
    /\ token = Null
    /\ \E p \in PlanProps, l \in BOOLEAN : CheckoutInit(p, l)

\* what the user can do on the checkout page
NextCheckout ==
    \/ RedirectToLogin
    \/ \E i \in 1..Len(plans.list) : ClickPlan(i)
    \/ \E i \in 1..Len(Gateways(selectedPlan)) : ClickGateway(i)
    \/ \E r \in GatewayResponses : GatewayCompleted(r)

SpecCheckout == InitCheckout /\ [][NextCheckout]_vars

\* selectedPlanIs as a function: the page, with selectedPlanIs called with any
\* identifier at any point
NextCheckoutCalls ==
    \/ NextCheckout
    \/ \E id \in PlanIdInputs : CallSelectedPlanIs(id)

SpecCheckoutCalls == InitCheckout /\ [][NextCheckoutCalls]_vars

----------------------------------------------------------------------------
TypeOK ==
    /\ step \in 1..5
    /\ isLoading \in BOOLEAN
    /\ view.step \in 1..5

----------------------------------------------------------------------------
(* Properties *)

\* the wizard state the form shows: fields, files, previews, amenities, step
WizardData ==
    <<values, amenitiesField, files, imagePreview, videoPreview, selectedAmenities, step>>

\* this step sends a POST /apartment
PostIssued ==
    /\ Len(requests') = Len(requests) + 1
    /\ requests'[Len(requests')].method = "POST"

\* the outcomes of a submission that did not succeed
FailedOutcomes == {o \in PostOutcomes : ~(o.kind = "response" /\ o.success)}

SucceededOutcomes == PostOutcomes \ FailedOutcomes

\* a slot holds a file
HoldsFile(f) == IsFile(files[f])

NoImageFile == \A f \in Range(imageFields) : ~HoldsFile(f)
NoVideoFile == \A f \in Range(videoFields) : ~HoldsFile(f)

\* the documented size limits: 3 MB for an image, 10 MB for a video
Threshold(type) == IF type = "image" THEN 3 * 1048576 ELSE 10 * 1048576

\* C1: nextStep advances only if validation passes: the step index grows only
\* in a nextStep whose validateStep returned true, and a nextStep whose
\* validateStep returned false leaves it as it was.
C1_NextStepAdvancesOnlyWhenValid ==
    [][ /\ (step' > step => NextStep /\ ValidateStep(view.step, values, files).ok)
        /\ (NextStep /\ ~ValidateStep(view.step, values, files).ok => step' = step)
      ]_vars

\* C1 witness: the wizard has advanced twice and now stands on a step whose
\* required fields are missing, where nextStep is refused.
C1_Witness ==
    /\ step = 3
    /\ view.step = 3
    /\ ~ValidateStep(3, values, files).ok
    /\ ValidateStep(1, values, files).ok
    /\ ValidateStep(2, values, files).ok

\* C2: a POST /apartment is issued only at step 5 with at least one image file
\* and one video file in the form; a submit event in any other state sends
\* nothing and leaves isLoading alone.
C2_SubmitOnlyAtStepFiveWithMedia ==
    [][ /\ (PostIssued => step = 5 /\ ~NoImageFile /\ ~NoVideoFile)
        /\ (SubmitEvent /\ ~(step = 5 /\ ~NoImageFile /\ ~NoVideoFile)
              => UNCHANGED <<requests, isLoading>>)
      ]_vars

\* C2 witness: a request is in flight, sent from step 5 with both kinds of file.
C2_Witness ==
    /\ PostsInFlight # {}
    /\ isLoading
    /\ step = 5
    /\ HoldsFile("image1")
    /\ HoldsFile("video1")

\* C3: at step 5 validateStep returns false iff no image slot holds a file or
\* no video slot holds a file, whatever the other fields hold.
C3_ValidateStepFive ==
    [][ CallValidateStep /\ view.step = 5
          => (returned' = "false" <=> (NoImageFile \/ NoVideoFile)) ]_vars

\* C3 witness: validateStep was called at step 5 with an image but no video,
\* while a required field of an earlier step is missing, and returned false.
C3_Witness ==
    /\ view.step = 5
    /\ returned = "false"
    /\ notice = MsgNoVideo
    /\ HoldsFile("image1")
    /\ NoVideoFile
    /\ \E s \in 1..4 : ~Trigger(FieldsToValidate(s), values)

\* C4: at no time are two POST /apartment requests in flight, and isLoading is
\* true for as long as one is.
C4_OneSubmissionInFlight ==
    /\ Cardinality(PostsInFlight) <= 1
    /\ PostsInFlight # {} => isLoading

\* C5: after a submission whose response carries success = true, fields,
\* previews, amenities and step equal those of a freshly mounted instance.
C5_ResetEqualsFreshMount ==
    [][ (\E i \in 1..Len(requests), o \in SucceededOutcomes : SubmitSettled(i, o))
          => /\ values' = DefaultValues
             /\ amenitiesField' = <<>>
             /\ files' = DefaultFiles
             /\ imagePreview' = EmptyMap
             /\ videoPreview' = EmptyMap
             /\ selectedAmenities' = <<>>
             /\ step' = 1 ]_vars

\* the notice the documentation promises for a failed submission
Classified(o) ==
    IF o.status = 401 THEN MsgExpired
    ELSE IF o.status = 503 THEN MsgUnavailable
    ELSE IF o.message # "" THEN o.message
    ELSE MsgFailed

\* C6: every failed submission raises a notice: 401 the session-expired one,
\* 503 the retry-later one, anything else the server's message or the fallback.
C6_EveryFailureNoticed ==
    [][ \A i \in 1..Len(requests), o \in FailedOutcomes :
            SubmitSettled(i, o) => notice' = Classified(o) ]_vars

\* C7: a submission that does not succeed (request error, missing token,
\* success flag not true) leaves fields, files, previews, amenities and step
\* as they were, and a request is only ever sent by a submit event.
C7_FailureKeepsForm ==
    [][ /\ ((\E i \in 1..Len(requests), o \in FailedOutcomes : SubmitSettled(i, o))
              => UNCHANGED WizardData /\ Len(requests') < Len(requests))
        /\ (SubmitEvent /\ ~Truthy(token)
              => UNCHANGED WizardData /\ UNCHANGED requests)
        /\ (PostIssued => SubmitEvent)
      ]_vars

\* C7 witness: a submission was answered 401 and the filled-in form is intact
\* at step 5, nothing in flight.
C7_Witness ==
    /\ notice = MsgExpired
    /\ step = 5
    /\ PostsInFlight = {}
    /\ ~isLoading
    /\ HoldsFile("image1")
    /\ HoldsFile("video1")
    /\ "image1" \in DOMAIN imagePreview
    /\ selectedAmenities = <<"WiFi">>
    /\ values["title"] = Str("x")

\* C8: with no token in local storage no protected call sends a request:
\* none is in flight for the wizard, and getUserSubscriptions sends none.
C8_NoTokenNoRequest ==
    ~Truthy(token) =>
        /\ requests = <<>>
        /\ GetUserSubscriptions(token, 1, "").sent = <<>>
        /\ GetUserSubscriptions(token, 1, "").threw # ""

\* C9: a file over the limit of its type is never stored and never previewed:
\* handleFileChange leaves the slot's value, the previews and the readers as
\* they were and raises a notice.
C9_OversizedRejected ==
    /\ [](/\ \A f \in FileFields : HoldsFile(f) => files[f].size <= Threshold(TypeOf(f))
          /\ \A r \in readers : r.file.size <= Threshold(r.type))
    /\ [][ \A f \in FileFields, file \in ImageInputs \cup VideoInputs :
              HandleFileChange(f, TypeOf(f), file) /\ file.size > Threshold(TypeOf(f))
                => /\ UNCHANGED <<files, imagePreview, videoPreview, readers>>
                   /\ notice' = MsgTooBig(file, Threshold(TypeOf(f))) ]_vars

\* C9 witness: an oversized image was just refused on a slot that holds a file
\* and a preview.
C9_Witness ==
    /\ notice = "File big.png exceeds maximum size limit of 3MB"
    /\ HoldsFile("image1")
    /\ "image1" \in DOMAIN imagePreview

\* C10: removeFile clears the slot's form value and its preview entry and
\* changes no other slot's value or preview.
C10_RemoveFileLocal ==
    [][ \A f \in FileFields :
            RemoveFile(f, TypeOf(f))
              => /\ files'[f] = Null
                 /\ f \notin (DOMAIN imagePreview') \cup (DOMAIN videoPreview')
                 /\ \A g \in FileFields \ {f} :
                        /\ files'[g] = files[g]
                        /\ (g \in DOMAIN imagePreview) = (g \in DOMAIN imagePreview')
                        /\ (g \in DOMAIN videoPreview) = (g \in DOMAIN videoPreview')
                        /\ g \in DOMAIN imagePreview => imagePreview'[g] = imagePreview[g]
                        /\ g \in DOMAIN videoPreview => videoPreview'[g] = videoPreview[g]
      ]_vars

\* C10 witness: image1 was removed while image2 keeps its file and preview.
C10_Witness ==
    /\ files["image1"] = Null
    /\ "image1" \notin DOMAIN imagePreview
    /\ HoldsFile("image2")
    /\ "image2" \in DOMAIN imagePreview

----------------------------------------------------------------------------
(* Properties of the checkout *)

\* the identifiers of the supplied plan list
PlanIdsOf(p) == {p.list[i].id : i \in 1..Len(p.list)}

\* the handler each gateway stands for
HandlerOf(slug) == IF slug = "bank-transfer" THEN "BankTransfer" ELSE "Paystack"

\* C11: selecting a gateway whose active flag is false changes neither
\* selectedGateway nor selectedPlan and raises the notice; the selected gateway
\* is always an active one, never Paystack.
C11_InactiveGatewayRejected ==
    /\ [](selectedGateway.defined =>
            selectedGateway.active /\ selectedGateway.slug # "paystack")
    /\ [][\A i \in 1..Len(Gateways(selectedPlan)) :
            (ClickGateway(i) /\ ~Gateways(selectedPlan)[i].active) =>
                /\ selectedGateway' = selectedGateway
                /\ selectedPlan' = selectedPlan
                /\ alerted' = MsgGateway]_vars

\* the inactive gateway was clicked: the notice is up, the payment methods
\* are still shown
C11_Witness ==
    /\ alerted = MsgGateway
    /\ selectedPlan.defined
    /\ ~selectedGateway.defined

\* C12: selectedPlanIs called with an identifier that is not in the plan list
\* leaves selectedPlan unchanged, whether or not a plan is already selected.
C12_AbsentPlanIdIsNoOp ==
    [][\A id \in PlanIdInputs :
        (CallSelectedPlanIs(id) /\ id \notin PlanIdsOf(plans)) =>
            selectedPlan' = selectedPlan]_vars

\* C13: after a plan p of the list and then an active gateway g are selected, the
\* page renders g's handler, the handler carries p, and no other handler is shown.
C13_HandlerOfChosenGatewayAndPlan ==
    /\ [](RenderedView.kind = "handler" =>
            /\ selectedPlan.id \in PlanIdsOf(plans)
            /\ RenderedView.component =
                    ComponentOf(HandlerOf(selectedGateway.slug), selectedPlan))
    /\ [][\A i \in 1..Len(Gateways(selectedPlan)) :
            (ClickGateway(i) /\ Gateways(selectedPlan)[i].active) =>
                RenderedView' =
                    [kind |-> "handler",
                     component |-> ComponentOf(HandlerOf(Gateways(selectedPlan)[i].slug),
                                               selectedPlan)]]_vars

\* plan 1 and then "bank-transfer" were selected: the BankTransfer handler is
\* rendered with plan 1
C13_Witness ==
    /\ plans = PlansOf(<<Basic>>)
    /\ selectedGateway.slug = "bank-transfer"
    /\ RenderedView = [kind |-> "handler", component |-> ComponentOf("BankTransfer", Basic)]

\* C15: the completion callback changes gatewayResponse only: the plan, the
\* gateway and the rendered handler stay as they were.
C15_CompletionOnlySetsResponse ==
    [][/\ \A r \in GatewayResponses :
            GatewayCompleted(r) =>
                /\ gatewayResponse' = r
                /\ selectedPlan' = selectedPlan
                /\ selectedGateway' = selectedGateway
                /\ RenderedView.kind = "handler"
                /\ RenderedView' = RenderedView
       /\ gatewayResponse' # gatewayResponse =>
            /\ selectedPlan' = selectedPlan
            /\ selectedGateway' = selectedGateway
            /\ RenderedView' = RenderedView]_vars

\* the handler has reported a response and is still the rendered view
C15_Witness ==
    /\ gatewayResponse.defined
    /\ RenderedView.kind = "handler"

\* C16: the checkout only moves forward: a selected gateway implies a selected
\* plan, a gateway is chosen only once a plan is, and no action of the rendered
\* view changes or clears a chosen plan or a chosen gateway.
C16_ForwardOnly ==
    /\ [](selectedGateway.defined => selectedPlan.defined)
    /\ [][/\ (selectedGateway'.defined /\ ~selectedGateway.defined) => selectedPlan.defined
          /\ selectedPlan.defined => selectedPlan' = selectedPlan
          /\ selectedGateway.defined => selectedGateway' = selectedGateway]_vars

\* the second of three plans, then a gateway, were chosen and the handler reported
C16_Witness ==
    /\ Len(plans.list) = 3
    /\ selectedPlan = Standard
    /\ selectedGateway.defined
    /\ gatewayResponse.defined

----------------------------------------------------------------------------
(* Properties of the payload, the amenities, the categories and the teardown *)

\* the JSON text of the amenity lists the user can select
SerializedAmenities(seq) ==
    CASE seq = <<>>              -> "[]"
      [] seq = <<"WiFi">>        -> "[\"WiFi\"]"
      [] seq = <<"Gym">>         -> "[\"Gym\"]"
      [] seq = <<"WiFi", "Gym">> -> "[\"WiFi\",\"Gym\"]"
      [] seq = <<"Gym", "WiFi">> -> "[\"Gym\",\"WiFi\"]"
      [] OTHER                   -> "?"

\* the payload of the request this step sends
IssuedBody == requests'[Len(requests')].body

\* this step sends a GET /apartment-types
GetIssued ==
    /\ Len(requests') = Len(requests) + 1
    /\ requests'[Len(requests')].method = "GET"

\* C14: a submission of the filled-in wizard sends exactly one request; its
\* payload holds every attached file under its slot key and nothing for an empty
\* slot, every required field, the serialized selected amenities, and the flags
\* published = false and can_rate = false.
C14_PayloadOfSubmission ==
    [][/\ PostIssued =>
            /\ \A f \in FileFields :
                    IF HoldsFile(f)
                    THEN f \in DOMAIN IssuedBody /\ IssuedBody[f] = files[f]
                    ELSE f \notin DOMAIN IssuedBody
            /\ \A f \in RequiredFields :
                    ~IsEmpty(values[f]) =>
                        f \in DOMAIN IssuedBody /\ IssuedBody[f] = Str(values[f].s)
            /\ IssuedBody["amenities"] = Str(SerializedAmenities(selectedAmenities))
            /\ IssuedBody["published"] = Str("false")
            /\ IssuedBody["can_rate"] = Str("false")
       /\ Len(requests') <= Len(requests) + 1
       /\ (/\ SubmitEvent
           /\ view.step = 5
           /\ HasImage(files) /\ HasVideo(files)
           /\ Trigger(RequiredFields, values)
           /\ Truthy(token)) => PostIssued]_vars

\* a request is in flight that carries the image, the video and both amenities
C14_Witness ==
    \E j \in 1..Len(requests) :
        /\ requests[j].method = "POST"
        /\ requests[j].body["image1"] = FileOf("a.png", MAX_IMAGE_SIZE)
        /\ requests[j].body["video1"] = FileOf("a.mp4", MAX_VIDEO_SIZE)
        /\ "image2" \notin DOMAIN requests[j].body
        /\ \A f \in RequiredFields : f \in DOMAIN requests[j].body
        /\ requests[j].body["amenities"] = Str("[\"WiFi\",\"Gym\"]")

\* C17: the selected amenities are a duplicate-free subset of AVAILABLE_AMENITIES,
\* the form's amenities field equals the selectedAmenities state, and toggling
\* an amenity twice gives back the set there was.
C17_AmenitiesWellFormed ==
    /\ Range(selectedAmenities) \subseteq Range(AVAILABLE_AMENITIES)
    /\ Cardinality(Range(selectedAmenities)) = Len(selectedAmenities)
    /\ amenitiesField = selectedAmenities
    /\ \A a \in Range(AVAILABLE_AMENITIES) :
          /\ Range(ToggleAmenity(selectedAmenities, a)) =
                IF a \in Range(selectedAmenities)
                THEN Range(selectedAmenities) \ {a}
                ELSE Range(selectedAmenities) \cup {a}
          /\ Range(ToggleAmenity(ToggleAmenity(selectedAmenities, a), a)) =
                Range(selectedAmenities)

\* two amenities are selected, the first one toggled off and on again
C17_Witness ==
    /\ selectedAmenities = <<"Gym", "WiFi">>
    /\ amenitiesField = <<"Gym", "WiFi">>

\* C18: the category list is requested once, by the mount effect; the categories
\* change only when that request returns success = true, its 401 raises the
\* login prompt, and no other operation of the wizard touches the list.
C18_CategoriesFetchedOnce ==
    /\ [](Cardinality({j \in 1..Len(requests) : requests[j].method = "GET"}) <= 1)
    /\ [][/\ GetIssued <=> (mounted' /\ ~mounted)
          /\ categories' # categories =>
                \E i \in 1..Len(requests), o \in GetOutcomes : CategoriesSettled(i, o)
          /\ \A i \in 1..Len(requests), o \in GetOutcomes :
                CategoriesSettled(i, o) =>
                    /\ ~(o.kind = "response" /\ o.success) => categories' = categories
                    /\ (o.kind = "axios" /\ o.status = 401) => notice' = MsgLogin]_vars

\* the list arrived and a later successful submission reset the form around it
C18_Witness ==
    /\ categories = ServedCategories
    /\ notice = MsgAdded
    /\ step = 1

\* C19: a teardown does not abort a request in flight, and a result that arrives
\* after the teardown changes no state of the component and raises no notice.
C19_LateResultIgnored ==
    [][/\ (unmounted' /\ ~unmounted) => requests' = requests
       /\ (unmounted /\ Len(requests') < Len(requests)) =>
            /\ WizardData' = WizardData
            /\ categories' = categories
            /\ isLoading' = isLoading
            /\ notice' = NoNotice]_vars

\* C20: every blob URL created for a video preview is released once its preview
\* is replaced, removed or reset, and none is left unreleased at the teardown.
C20_BlobsReleased ==
    \A b \in 1..blobCount :
        /\ (\A f \in DOMAIN videoPreview : videoPreview[f] # BlobUrl(b)) => b \in RevokedBlobs
        /\ unmounted => b \in RevokedBlobs

----------------------------------------------------------------------------
(* Properties of the step index, the file readers and the loading flag *)

\* C21: no step is skipped without its own validation: whenever the step index
\* moves from n to n + 1, validateStep passes for step n itself, also when a
\* second nextStep runs before the first one has been rendered.
C21_NoStepSkipped ==
    [][step' = step + 1 => ValidateStep(step, values, files).ok]_vars

\* C22: once every pending file read has completed, a slot has a preview only if
\* its form value holds a file (a late reader does not bring back the preview of
\* a slot emptied by removeFile or by the reset).
C22_PreviewOnlyOfHeldFile ==
    readers = {} =>
        \A f \in (DOMAIN imagePreview) \cup (DOMAIN videoPreview) : HoldsFile(f)

\* C23: the step index stays in 1..5 and an operation changes it by at most one,
\* except the reset to 1 after a successful submission; prevStep decrements it
\* whatever the form holds and leaves it at 1, nextStep never raises it above 5.
C23_StepIndexBounded ==
    /\ [](step \in 1..5)
    /\ [][/\ step' # step =>
                \/ step' = step + 1
                \/ step' = step - 1
                \/ /\ step' = 1
                   /\ \E i \in 1..Len(requests), o \in SucceededOutcomes : SubmitSettled(i, o)
          /\ PrevStep =>
                /\ step' = IF step > 1 THEN step - 1 ELSE 1
                /\ notice' = NoNotice
          /\ NextStep => step' \in {step, step + 1} /\ step' <= 5]_vars

\* the user went back from step 5 to step 4 after attaching an image and
\* without a video: prevStep ran although validateStep fails there
C23_Witness ==
    /\ step = 4
    /\ view.step = 4
    /\ HoldsFile("image1")
    /\ NoVideoFile

\* C24: isLoading is true only while a submission is in flight, and once the
\* request settles it is false again, and the submit control with it, on every
\* path of onSubmit.
C24_LoadingEnds ==
    /\ [](isLoading => PostsInFlight # {})
    /\ [][\A i \in 1..Len(requests), o \in PostOutcomes :
            SubmitSettled(i, o) => ~isLoading']_vars
    /\ (isLoading ~> ~isLoading)
    /\ (view.isLoading ~> ~view.isLoading)

\* a submission was refused by the server and the submit button is enabled again
C24_Witness ==
    /\ notice = MsgUnavailable
    /\ ~isLoading
    /\ ~view.isLoading
    /\ view.step = 5
    /\ PostsInFlight = {}

====
